---- MODULE Spec2Model ----
(***************************************************************************)
(* Interactive Sort (src/interactive/sort.py).                             *)
(*                                                                         *)
(* Ordering, TransitivityTable, Sort and BaseAgent.process are modelled.   *)
(* Elements are the integers 1..n; they are opaque to the program, which   *)
(* only tests them for equality and uses them as dictionary keys.          *)
(*                                                                         *)
(* Three specifications share the variables:                               *)
(*   Spec       BaseAgent.process driven by an oracle that answers after   *)
(*              a strict total order T (one step per merge call);          *)
(*   FairSpec   Spec, with process running on until it returns;            *)
(*   SpecTable  arbitrary callers of TransitivityTable.order on the table  *)
(*              of a freshly constructed Sort.                             *)
(***************************************************************************)
EXTENDS Integers, Sequences, FiniteSets, TLC

\* Largest dataset handed to BaseAgent.process.
MaxN == 5

\* Largest dataset whose table is handed to arbitrary callers of order.
MaxTable == 3

-----------------------------------------------------------------------------
\* class Ordering(Enum)

Unknown == 0
Lower == 1
Higher == 2

Ordering == {Unknown, Lower, Higher}

\* Ordering.opposite with the two definite values left in place.
opposite_same(self) ==
    self

opposite(self) ==
    IF self = Unknown THEN Unknown
    ELSE IF self = Lower THEN Higher
    ELSE Lower

\* Python's None for Sort.result and Sort.question (0 is not an element).
None == <<0>>

\* A value that is not an instance of Ordering (e.g. the string 'y').
NotAnOrdering == 7

-----------------------------------------------------------------------------
\* Helpers on sequences

Range(s) == {s[i] : i \in 1..Len(s)}

\* All duplicate-free sequences that list every element of the set S.
Perms(S) ==
    {s \in [1..Cardinality(S) -> S] : Range(s) = S}

\* Position of x in the duplicate-free sequence s.
IndexOf(s, x) == CHOOSE i \in 1..Len(s) : s[i] = x

\* [x for x in s if P(x)]
RECURSIVE SelectSeqFrom(_, _, _)
SelectSeqFrom(s, i, keep) ==
    IF i > Len(s) THEN <<>>
    ELSE IF s[i] \in keep THEN <<s[i]>> \o SelectSeqFrom(s, i + 1, keep)
    ELSE SelectSeqFrom(s, i + 1, keep)

-----------------------------------------------------------------------------
\* class TransitivityTable
\*
\* A table is the record [data, dataset, elements, datadim] of the fields
\* self.data, self._dataset, self._elements, self._datadim.  A method that
\* can raise returns [self |-> the table as the call left it, err |-> kind].

NoError == "none"
TypeError == "TypeError"
ValueErrorOrigin == "ValueError: origin is not in the dataset"
ValueErrorTarget == "ValueError: target is not in the dataset"
ValueErrorAssigned == "ValueError: Ordering already assigned"
KeyError == "KeyError"

\* The exception class of an error: the three ValueErrors of lines 61, 63,
\* 66 and 69 differ in their message only.
ErrorKind(e) ==
    IF e \in {ValueErrorOrigin, ValueErrorTarget, ValueErrorAssigned} THEN "ValueError"
    ELSE e

\* TransitivityTable.__init__
TransitivityTable(data) ==
    [data     |-> [p \in {q \in Range(data) \X Range(data) : q[1] # q[2]} |-> Unknown],
     datadim  |-> Len(data),
     dataset  |-> data,
     elements |-> Range(data)]

orderof(self, origin, target) ==
    self.data[<<origin, target>>]

\* orderof as a call that can raise: the lookup of line 46 raises KeyError
\* for a key self.data does not hold (a non-member, or origin == target).
orderof_call(self, origin, target) ==
    IF <<origin, target>> \in DOMAIN self.data
    THEN [value |-> orderof(self, origin, target), err |-> NoError]
    ELSE [value |-> Unknown, err |-> KeyError]

ishigher(self, origin, target) ==
    orderof(self, origin, target) = Higher

islower(self, origin, target) ==
    orderof(self, origin, target) = Lower

RECURSIVE order(_, _, _, _)
RECURSIVE transitivity_pairs(_, _, _, _, _)

\* The double loop of transitivity_set over lowers (index i) and highers
\* (index j), both computed before the loop starts; the test reads the
\* live table, and an exception of the nested order call ends the loop.
\* (r \in {e} binds r to the value of e, which is then computed once.)
transitivity_pairs(self, lowers, highers, i, j) ==
    IF i > Len(lowers) THEN [self |-> self, err |-> NoError]
    ELSE IF j > Len(highers) THEN transitivity_pairs(self, lowers, highers, i + 1, 1)
    ELSE IF orderof(self, lowers[i], highers[j]) # Lower
         THEN CHOOSE out \in
                  {IF r.err # NoError THEN r
                   ELSE transitivity_pairs(r.self, lowers, highers, i, j + 1) :
                       r \in {order(self, lowers[i], highers[j], Lower)}} : TRUE
         ELSE transitivity_pairs(self, lowers, highers, i, j + 1)

\* transitivity_set that derives nothing.
transitivity_set_skip(self, pivot) ==
    [self |-> self, err |-> NoError]

\* transitivity_set that takes for lowers every element not known to be
\* higher than the pivot (not self.ishigher in place of self.islower, line 78).
transitivity_set_eager(self, pivot) ==
    CHOOSE out \in
        {transitivity_pairs(tbl, lowers, highers, 1, 1) :
             tbl \in {self},
             lowers \in {SelectSeqFrom(self.dataset, 1,
                            {x \in self.elements : x # pivot /\ ~ishigher(self, x, pivot)})},
             highers \in {SelectSeqFrom(self.dataset, 1,
                            {x \in self.elements : x # pivot /\ ishigher(self, x, pivot)})}} : TRUE

transitivity_set(self, pivot) ==
    CHOOSE out \in
        {transitivity_pairs(tbl, lowers, highers, 1, 1) :
             tbl \in {self},
             lowers \in {SelectSeqFrom(self.dataset, 1,
                            {x \in self.elements : x # pivot /\ islower(self, x, pivot)})},
             highers \in {SelectSeqFrom(self.dataset, 1,
                            {x \in self.elements : x # pivot /\ ishigher(self, x, pivot)})}} : TRUE

\* The two assignments of order (lines 70-71).
assign(self, origin, target, value) ==
    [self EXCEPT !.data = [@ EXCEPT ![<<origin, target>>] = value,
                                    ![<<target, origin>>] = opposite(value)]]

\* order without its two "already assigned" checks.
order_unchecked(self, origin, target, value) ==
    IF value \notin Ordering THEN [self |-> self, err |-> TypeError]
    ELSE IF origin \notin self.elements THEN [self |-> self, err |-> ValueErrorOrigin]
    ELSE IF target \notin self.elements THEN [self |-> self, err |-> ValueErrorTarget]
    ELSE IF origin = target THEN [self |-> self, err |-> KeyError]
    ELSE CHOOSE out \in
             {IF r1.err # NoError THEN r1 ELSE transitivity_set(r1.self, target) :
                  r1 \in {transitivity_set(assign(self, origin, target, value), origin)}} : TRUE

\* order that propagates from origin alone (line 73 left out).
order_origin_only(self, origin, target, value) ==
    IF value \notin Ordering THEN [self |-> self, err |-> TypeError]
    ELSE IF origin \notin self.elements THEN [self |-> self, err |-> ValueErrorOrigin]
    ELSE IF target \notin self.elements THEN [self |-> self, err |-> ValueErrorTarget]
    ELSE IF origin = target THEN [self |-> self, err |-> KeyError]
    ELSE IF self.data[<<origin, target>>] # Unknown
            /\ self.data[<<origin, target>>] # value
         THEN [self |-> self, err |-> ValueErrorAssigned]
    ELSE IF self.data[<<target, origin>>] # Unknown
            /\ self.data[<<target, origin>>] # opposite(value)
         THEN [self |-> self, err |-> ValueErrorAssigned]
    ELSE transitivity_set(assign(self, origin, target, value), origin)

order(self, origin, target, value) ==
    IF value \notin Ordering THEN [self |-> self, err |-> TypeError]
    ELSE IF origin \notin self.elements THEN [self |-> self, err |-> ValueErrorOrigin]
    ELSE IF target \notin self.elements THEN [self |-> self, err |-> ValueErrorTarget]
    ELSE IF origin = target THEN [self |-> self, err |-> KeyError]
    ELSE IF self.data[<<origin, target>>] # Unknown
            /\ self.data[<<origin, target>>] # value
         THEN [self |-> self, err |-> ValueErrorAssigned]
    ELSE IF self.data[<<target, origin>>] # Unknown
            /\ self.data[<<target, origin>>] # opposite(value)
         THEN [self |-> self, err |-> ValueErrorAssigned]
    ELSE CHOOSE out \in
             {IF r1.err # NoError THEN r1 ELSE transitivity_set(r1.self, target) :
                  r1 \in {transitivity_set(assign(self, origin, target, value), origin)}} : TRUE

-----------------------------------------------------------------------------
\* class Sort

\* The two-pointer loop of Sort.merge (lines 122-136): a and b are the
\* local slices, sort the local output list.
RECURSIVE merge_loop(_, _, _, _)

\* merge_loop taking the front of the wrong bucket.
merge_loop_swapped(tbl, a, b, sort) ==
    IF Len(a) > 0 /\ Len(b) > 0
    THEN LET ord == orderof(tbl, a[1], b[1])
         IN  IF ord = Unknown
                 THEN [ret |-> FALSE, question |-> <<a[1], b[1]>>, a |-> a, b |-> b, sort |-> sort]
             ELSE IF ord = Lower
                 THEN merge_loop(tbl, a, Tail(b), Append(sort, b[1]))
             ELSE merge_loop(tbl, Tail(a), b, Append(sort, a[1]))
    ELSE [ret |-> TRUE, question |-> None, a |-> <<>>, b |-> <<>>, sort |-> sort \o a \o b]

\* merge_loop without the two extends after the loop (lines 133-136).
merge_loop_no_extend(tbl, a, b, sort) ==
    IF Len(a) > 0 /\ Len(b) > 0
    THEN LET ord == orderof(tbl, a[1], b[1])
         IN  IF ord = Unknown
                 THEN [ret |-> FALSE, question |-> <<a[1], b[1]>>, a |-> a, b |-> b, sort |-> sort]
             ELSE IF ord = Lower
                 THEN merge_loop(tbl, Tail(a), b, Append(sort, a[1]))
             ELSE merge_loop(tbl, a, Tail(b), Append(sort, b[1]))
    ELSE [ret |-> TRUE, question |-> None, a |-> <<>>, b |-> <<>>, sort |-> sort]

merge_loop(tbl, a, b, sort) ==
    IF Len(a) > 0 /\ Len(b) > 0
    THEN LET ord == orderof(tbl, a[1], b[1])
         IN  IF ord = Unknown
                 THEN [ret |-> FALSE, question |-> <<a[1], b[1]>>, a |-> a, b |-> b, sort |-> sort]
             ELSE IF ord = Lower
                 THEN merge_loop(tbl, Tail(a), b, Append(sort, a[1]))
             ELSE merge_loop(tbl, a, Tail(b), Append(sort, b[1]))
    ELSE [ret |-> TRUE, question |-> None, a |-> <<>>, b |-> <<>>, sort |-> sort \o a \o b]

\* merge that consumes the two front buckets in place (a.pop(0) instead of
\* a = a[1:]), so that a suspended merge leaves them shortened.
merge_in_place(bk, tbl, q) ==
    LET m == merge_loop(tbl, bk[1], bk[2], <<>>)
    IN  IF m.ret
        THEN [ret |-> TRUE, buckets |-> Append(SubSeq(bk, 3, Len(bk)), m.sort),
              question |-> q, a |-> m.a, b |-> m.b]
        ELSE [ret |-> FALSE, buckets |-> <<m.a, m.b>> \o SubSeq(bk, 3, Len(bk)),
              question |-> m.question, a |-> m.a, b |-> m.b]

\* merge that asks about the first elements of the two buckets, whatever
\* the loop has consumed.
merge_ask_heads(bk, tbl, q) ==
    LET m == merge_loop(tbl, bk[1], bk[2], <<>>)
    IN  IF m.ret
        THEN [ret |-> TRUE, buckets |-> Append(SubSeq(bk, 3, Len(bk)), m.sort),
              question |-> q, a |-> m.a, b |-> m.b]
        ELSE [ret |-> FALSE, buckets |-> bk,
              question |-> <<bk[1][1], bk[2][1]>>, a |-> m.a, b |-> m.b]

\* merge that returns True without putting its output in the queue (lines
\* 137-139 left out).
merge_no_commit(bk, tbl, q) ==
    LET m == merge_loop(tbl, bk[1], bk[2], <<>>)
    IN  IF m.ret
        THEN [ret |-> TRUE, buckets |-> bk,
              question |-> q, a |-> m.a, b |-> m.b]
        ELSE [ret |-> FALSE, buckets |-> bk,
              question |-> m.question, a |-> m.a, b |-> m.b]

\* Sort.merge: the value it returns, the fields buckets and question of
\* the Sort as it leaves them, and its locals a and b at the return.
merge(bk, tbl, q) ==
    LET m == merge_loop(tbl, bk[1], bk[2], <<>>)
    IN  IF m.ret
        THEN [ret |-> TRUE, buckets |-> Append(SubSeq(bk, 3, Len(bk)), m.sort),
              question |-> q, a |-> m.a, b |-> m.b]
        ELSE [ret |-> FALSE, buckets |-> bk,
              question |-> m.question, a |-> m.a, b |-> m.b]

-----------------------------------------------------------------------------
\* The oracle: ConsoleAgent.retrieve_ordering answering "is a lower than b"
\* after the strict total order t (a sequence, lowest first).
retrieve_ordering(t, a, b) ==
    IF IndexOf(t, a) < IndexOf(t, b) THEN Lower ELSE Higher

-----------------------------------------------------------------------------
VARIABLES
    dataset,    \* Sort.dataset
    done,       \* Sort.done
    table,      \* Sort.table
    buckets,    \* Sort.buckets
    result,     \* Sort.result
    question,   \* Sort.question
    pc,         \* position of BaseAgent.process / Sort.sort
    T,          \* the oracle's strict total order, lowest first
    err,        \* what the latest call of TransitivityTable.order raised
    last,       \* the latest call of TransitivityTable.order: what it found and did
    asked,      \* the questions put to the oracle so far, in order
    merges,     \* number of Sort.merge calls that returned True
    attempt,    \* the latest Sort.merge call: its two input buckets, the local
                \* slices a and b when it returned, and the value it returned
    entry       \* Sort.question as the latest Sort.sort call found it

vars == <<dataset, done, table, buckets, result, question, pc, T, err, last,
          asked, merges, attempt, entry>>

sortVars == <<dataset, done, buckets, result, question, pc, T, asked, merges, attempt,
              entry>>

NoCall == [op |-> "none", args |-> "none", stored |-> Unknown, value |-> Unknown,
           changed |-> FALSE]

NoAttempt == [a |-> <<>>, b |-> <<>>, ra |-> <<>>, rb |-> <<>>, ret |-> TRUE]

\* Sort.__init__ (BaseAgent.__init__ builds the Sort) for the dataset data.
SortInit(data) ==
    /\ dataset = data
    /\ done = FALSE
    /\ table = TransitivityTable(data)
    /\ buckets = [i \in 1..Len(data) |-> <<data[i]>>]
    /\ result = None
    /\ question = None
    /\ pc = "while"
    /\ err = NoError
    /\ last = NoCall
    /\ asked = <<>>
    /\ merges = 0
    /\ attempt = NoAttempt
    /\ entry = None

\* Every duplicate-free dataset of 0..MaxN elements with a strict total
\* order of its elements for the oracle.  The program tests elements for
\* equality only, so they are named by their rank in the oracle's order:
\* the dataset lists 1..n in any arrangement and the oracle ranks i as the
\* i-th lowest.
Init ==
    \E n \in 0..MaxN :
        \E data \in Perms(1..n) :
            /\ SortInit(data)
            /\ T = [i \in 1..n |-> i]

\* SortTerminal whose one-bucket branch repeats the zero-bucket branch
\* (self.result = [] in place of self.buckets[0], line 108).
SortTerminal_empty ==
    /\ pc = "while" /\ ~done
    /\ Len(buckets) <= 1
    /\ done' = TRUE
    /\ result' = <<>>
    /\ pc' = "asked"
    /\ entry' = question
    /\ UNCHANGED <<dataset, table, buckets, question, T, err, last, asked, merges, attempt>>

\* Sort.sort, lines 103-108: zero or one bucket.
SortTerminal ==
    /\ pc = "while" /\ ~done
    /\ Len(buckets) <= 1
    /\ done' = TRUE
    /\ result' = IF Len(buckets) = 0 THEN <<>> ELSE buckets[1]
    /\ pc' = "asked"
    /\ entry' = question
    /\ UNCHANGED <<dataset, table, buckets, question, T, err, last, asked, merges, attempt>>

\* Sort.sort, lines 109-110: two buckets or more, ongoing = True.
SortEnter ==
    /\ pc = "while" /\ ~done
    /\ Len(buckets) > 1
    /\ pc' = "sort"
    /\ entry' = question
    /\ UNCHANGED <<dataset, done, table, buckets, result, question, T, err, last,
                   asked, merges, attempt>>

\* One pass of the loop of Sort.sort whose merge call returns True; the
\* loop goes on while two buckets are left, else sort sets done and result.
MergeDone ==
    /\ pc = "sort"
    /\ LET m == merge(buckets, table, question)
       IN  /\ m.ret
           /\ buckets' = m.buckets
           /\ question' = m.question
           /\ attempt' = [a |-> buckets[1], b |-> buckets[2], ra |-> m.a, rb |-> m.b, ret |-> TRUE]
           /\ merges' = merges + 1
           /\ IF Len(m.buckets) > 1
              THEN pc' = "sort" /\ UNCHANGED <<done, result>>
              ELSE pc' = "asked" /\ done' = TRUE /\ result' = m.buckets[1]
    /\ UNCHANGED <<dataset, table, T, err, last, asked, entry>>

\* One pass of the loop of Sort.sort whose merge call returns False:
\* ongoing becomes False and sort returns.
MergeSuspend ==
    /\ pc = "sort"
    /\ LET m == merge(buckets, table, question)
       IN  /\ ~m.ret
           /\ buckets' = m.buckets
           /\ question' = m.question
           /\ attempt' = [a |-> buckets[1], b |-> buckets[2], ra |-> m.a, rb |-> m.b, ret |-> FALSE]
    /\ pc' = "asked"
    /\ UNCHANGED <<dataset, done, table, result, T, err, last, asked, merges, entry>>

\* The arguments of a call on tbl: two distinct members, or which of them
\* is not a member, or one member twice.
ArgsOf(tbl, origin, target) ==
    IF origin \notin tbl.elements THEN "origin"
    ELSE IF target \notin tbl.elements THEN "target"
    ELSE IF origin = target THEN "same"
    ELSE "members"

\* What a call order(origin, target, value) on tbl finds and does.
CallRecord(tbl, origin, target, value, r) ==
    [op      |-> "order",
     args    |-> ArgsOf(tbl, origin, target),
     stored  |-> IF origin \in tbl.elements /\ target \in tbl.elements /\ origin # target
                 THEN tbl.data[<<origin, target>>] ELSE Unknown,
     value   |-> value,
     changed |-> r.self # tbl]

\* BaseAgent.process, lines 154-159, with a pending question: ask, retrieve
\* the answer, order; an exception of order leaves process.
Answer ==
    /\ pc = "asked"
    /\ question # None
    /\ LET a == question[1]
           b == question[2]
           v == retrieve_ordering(T, a, b)
       IN  \E r \in {order(table, a, b, v)} :
           /\ asked' = Append(asked, question)
           /\ table' = r.self
           /\ err' = r.err
           /\ last' = CallRecord(table, a, b, v, r)
           /\ IF r.err = NoError
              THEN question' = None /\ pc' = "while"
              ELSE question' = question /\ pc' = "raised"
    /\ UNCHANGED <<dataset, done, buckets, result, T, merges, attempt, entry>>

\* BaseAgent.process, lines 154 and 159, without a pending question.
NoQuestion ==
    /\ pc = "asked"
    /\ question = None
    /\ question' = None
    /\ pc' = "while"
    /\ UNCHANGED <<dataset, done, table, buckets, result, T, err, last, asked, merges,
                   attempt, entry>>

\* BaseAgent.process, lines 152 and 160: the loop ends, result is returned.
Return ==
    /\ pc = "while" /\ done
    /\ pc' = "returned"
    /\ UNCHANGED <<dataset, done, table, buckets, result, question, T, err, last,
                   asked, merges, attempt, entry>>

Next ==
    \/ SortTerminal
    \/ SortEnter
    \/ MergeDone
    \/ MergeSuspend
    \/ Answer
    \/ NoQuestion
    \/ Return

Spec == Init /\ [][Next]_vars

\* process runs on: Python executes the loop without stopping, and the
\* oracle answers every question.
FairSpec == Spec /\ WF_vars(Next)

-----------------------------------------------------------------------------
\* A caller of Sort other than BaseAgent.process: it calls Sort.sort, lines
\* 101-115, answers the pending question with TransitivityTable.order, lines
\* 56-73, and calls Sort.sort again; it never assigns Sort.question itself.
AnswerKeep ==
    /\ pc = "asked"
    /\ question # None
    /\ LET a == question[1]
           b == question[2]
           v == retrieve_ordering(T, a, b)
       IN  \E r \in {order(table, a, b, v)} :
           /\ asked' = Append(asked, question)
           /\ table' = r.self
           /\ err' = r.err
           /\ last' = CallRecord(table, a, b, v, r)
           /\ pc' = IF r.err = NoError THEN "while" ELSE "raised"
    /\ UNCHANGED <<dataset, done, buckets, result, question, T, merges, attempt, entry>>

NextCaller ==
    \/ Next
    \/ AnswerKeep

SpecCaller == Init /\ [][NextCaller]_vars

-----------------------------------------------------------------------------
\* BaseAgent.process with an oracle bound to no order: retrieve_ordering
\* (line 156) returns Lower or Higher as it pleases.  The answers name no
\* element, so the dataset is 1..n in this order.
InitAny ==
    \E n \in 0..MaxN :
        /\ SortInit([i \in 1..n |-> i])
        /\ T = dataset

AnswerAny ==
    /\ pc = "asked"
    /\ question # None
    /\ \E v \in {Lower, Higher} :
           \E r \in {order(table, question[1], question[2], v)} :
               /\ asked' = Append(asked, question)
               /\ table' = r.self
               /\ err' = r.err
               /\ last' = CallRecord(table, question[1], question[2], v, r)
               /\ IF r.err = NoError
                  THEN question' = None /\ pc' = "while"
                  ELSE question' = question /\ pc' = "raised"
    /\ UNCHANGED <<dataset, done, buckets, result, T, merges, attempt, entry>>

NextAny ==
    \/ SortTerminal
    \/ SortEnter
    \/ MergeDone
    \/ MergeSuspend
    \/ AnswerAny
    \/ NoQuestion
    \/ Return

SpecAny == InitAny /\ [][NextAny]_vars

\* process runs on and the oracle answers every question.
FairSpecAny == SpecAny /\ WF_vars(NextAny)

-----------------------------------------------------------------------------
\* Arbitrary callers of TransitivityTable.order on the table of a new Sort.

InitTable ==
    \E n \in 0..MaxTable :
        /\ SortInit([i \in 1..n |-> i])
        /\ T = dataset

\* A call order(origin, target, value) by any caller: the table stays as
\* the call left it, whether it returned or raised.
OrderCall(origin, target, value) ==
    \E r \in {order(table, origin, target, value)} :
        /\ table' = r.self
        /\ err' = r.err
        /\ last' = CallRecord(table, origin, target, value, r)
        /\ UNCHANGED sortVars

\* A value outside the dataset.
Stranger == MaxTable + 1

\* Calls that fail the argument checks of order (lines 58-64).
BadCalls ==
    {<<Stranger, x, Lower>> : x \in table.elements \cup {Stranger}}
        \cup {<<x, Stranger, Higher>> : x \in table.elements}
        \cup {<<x, x, v>> : x \in table.elements, v \in {Lower, Higher}}
        \cup {<<x, y, NotAnOrdering>> : x \in table.elements, y \in table.elements}

\* order on two distinct members with any Ordering value.
OrderMembers ==
    \E origin \in table.elements, target \in table.elements, value \in Ordering :
        /\ origin # target
        /\ OrderCall(origin, target, value)

\* order with arguments it does not support.
OrderBadArguments ==
    \E c \in BadCalls : OrderCall(c[1], c[2], c[3])

NextTable ==
    \/ OrderMembers
    \/ OrderBadArguments

SpecTable == InitTable /\ [][NextTable]_vars

\* A call orderof(origin, target) by any caller, with members or not.
OrderofCall ==
    \E origin \in table.elements \cup {Stranger}, target \in table.elements \cup {Stranger} :
        \E r \in {orderof_call(table, origin, target)} :
            /\ err' = r.err
            /\ last' = [op |-> "orderof", args |-> ArgsOf(table, origin, target),
                        stored |-> r.value, value |-> Unknown, changed |-> FALSE]
            /\ UNCHANGED table
            /\ UNCHANGED sortVars

NextQuery ==
    \/ NextTable
    \/ OrderofCall

SpecQuery == InitTable /\ [][NextQuery]_vars

-----------------------------------------------------------------------------
\* Properties

Definite == {Lower, Higher}

Pairs(tbl) == {p \in tbl.elements \X tbl.elements : p[1] # p[2]}

\* x precedes y in the oracle's order.
Precedes(x, y) == IndexOf(T, x) < IndexOf(T, y)

\* {a, b} of a question <<a, b>>.
Unordered(q) == {q[1], q[2]}

\* s is what is left of the sequence whole after some of its first elements
\* were taken.
IsSuffix(s, whole) ==
    /\ Len(s) <= Len(whole)
    /\ s = SubSeq(whole, Len(whole) - Len(s) + 1, Len(whole))

Max0(n) == IF n > 0 THEN n ELSE 0

\* C1: process, with an oracle answering after the strict total order T,
\* returns a sequence holding every dataset element exactly once, in
\* ascending T order.
C1_SortedPermutation ==
    pc = "returned" =>
        /\ result # None
        /\ Len(result) = Len(dataset)
        /\ Range(result) = Range(dataset)
        /\ \A i \in 1..Len(result) : \A j \in 1..Len(result) :
               i < j => Precedes(result[i], result[j])

C1_Witness ==
    /\ pc = "returned"
    /\ Len(dataset) = MaxN
    /\ result # dataset
    /\ Len(asked) >= MaxN

\* C2: after every call of order, accepted or rejected, no three distinct
\* elements x, y, z have x lower than y, y lower than z and x not lower
\* than z.
C2_TransitiveClosure ==
    \A x \in table.elements : \A y \in table.elements : \A z \in table.elements :
        (x # y /\ y # z /\ x # z /\ islower(table, x, y) /\ islower(table, y, z))
            => islower(table, x, z)

C2_Witness ==
    /\ last.changed
    /\ err = NoError
    /\ \E x \in table.elements : \E y \in table.elements : \E z \in table.elements :
           /\ x # y /\ y # z /\ x # z
           /\ islower(table, x, y) /\ islower(table, y, z) /\ islower(table, x, z)

\* C3: after every call of order, accepted or rejected, orderof(x, y) is
\* the opposite of orderof(y, x) for all distinct x, y.
C3_AntiSymmetry ==
    \A p \in Pairs(table) :
        <<orderof(table, p[1], p[2]), orderof(table, p[2], p[1])>>
            \in {<<Unknown, Unknown>>, <<Lower, Higher>>, <<Higher, Lower>>}

C3_Witness ==
    /\ last.changed
    /\ \E p \in Pairs(table) :
           orderof(table, p[1], p[2]) = Lower /\ orderof(table, p[2], p[1]) = Higher

\* C4: a call of order with a definite value that differs from the definite
\* value stored for the pair raises "Ordering already assigned" and leaves
\* every entry as it was, so that asserting the stored value again succeeds.
\* First conjunct: the calls the callers made; second: every such call that
\* can be made in the state.
C4_ConflictRejected ==
    /\ (last.stored \in Definite /\ last.value \in Definite /\ last.value # last.stored)
           => (err = ValueErrorAssigned /\ ~last.changed)
    /\ \A p \in Pairs(table) :
           LET stored == orderof(table, p[1], p[2])
               r == order(table, p[1], p[2], opposite(stored))
           IN  stored \in Definite =>
                   /\ r.err = ValueErrorAssigned
                   /\ r.self = table
                   /\ order(r.self, p[1], p[2], stored) = [self |-> table, err |-> NoError]

C4_Witness ==
    /\ err = ValueErrorAssigned
    /\ last.stored \in Definite /\ last.value \in Definite /\ last.value # last.stored
    /\ \E x \in table.elements : \E y \in table.elements : \E z \in table.elements :
           /\ x # y /\ y # z /\ x # z
           /\ islower(table, x, y) /\ islower(table, y, z) /\ islower(table, x, z)

\* C5 as stated: done is reached after at most N-1 merge calls that
\* returned True, for a dataset of N elements.
C5_AtMostNMinus1Merges ==
    done => merges <= Len(dataset) - 1

\* C5: with an oracle that answers every question after one total order,
\* process reaches done = True, after N-1 merge calls that returned True
\* when N >= 1 and after none when N = 0.
C5_Termination ==
    /\ <>done
    /\ [](merges <= Max0(Len(dataset) - 1))
    /\ [](done => merges = Max0(Len(dataset) - 1))

C5_Witness ==
    /\ done
    /\ Len(dataset) = MaxN
    /\ merges = MaxN - 1
    /\ Len(asked) >= MaxN

\* C6: a question the engine exposes when sort returns is the pair of the
\* fronts of what the merge had left of the two front buckets, and its
\* relation is Unknown in the table; no unordered pair is asked twice, and
\* at most N(N-1)/2 questions are asked.
C6_QuestionsUnknownAndNew ==
    /\ (pc = "asked" /\ question # None) =>
           /\ Len(buckets) >= 2
           /\ ~attempt.ret
           /\ IsSuffix(attempt.ra, buckets[1]) /\ attempt.ra # <<>>
           /\ IsSuffix(attempt.rb, buckets[2]) /\ attempt.rb # <<>>
           /\ question = <<attempt.ra[1], attempt.rb[1]>>
           /\ orderof(table, question[1], question[2]) = Unknown
           /\ orderof(table, question[2], question[1]) = Unknown
           /\ \A i \in 1..Len(asked) : Unordered(asked[i]) # Unordered(question)
    /\ \A i \in 1..Len(asked) : \A j \in 1..Len(asked) :
           i < j => Unordered(asked[i]) # Unordered(asked[j])
    /\ 2 * Len(asked) <= Len(dataset) * (Len(dataset) - 1)

C6_Witness ==
    /\ pc = "asked" /\ question # None
    /\ Len(asked) >= 2
    /\ attempt.ra # attempt.a
    /\ \E p \in Pairs(table) :
           /\ orderof(table, p[1], p[2]) # Unknown
           /\ \A i \in 1..Len(asked) : Unordered(asked[i]) # {p[1], p[2]}

\* The run of scenario 1: dataset [A, B, C] = <<1, 2, 3>>, oracle A < B < C.
Scenario1 == dataset = <<1, 2, 3>> /\ T = <<1, 2, 3>>

\* C7 as stated: the run of scenario 1 ends with result [A, B, C] after at
\* most two questions, none of them about A and C.
C7_TwoQuestions ==
    (Scenario1 /\ pc = "returned") =>
        /\ result = <<1, 2, 3>>
        /\ Len(asked) <= 2
        /\ \A i \in 1..Len(asked) : Unordered(asked[i]) # {1, 3}

\* C7: the run of scenario 1 ends with result [A, B, C] after the three
\* questions (A, B), (C, A), (C, B): the second merge takes [C] and [A, B]
\* from the queue and puts C and A to the oracle.
C7_ThreeQuestions ==
    (Scenario1 /\ pc = "returned") =>
        /\ result = <<1, 2, 3>>
        /\ asked = << <<1, 2>>, <<3, 1>>, <<3, 2>> >>

C7_Witness ==
    Scenario1 /\ pc = "returned"

\* C8: an entry that is Lower or Higher keeps its value in every call of
\* order, whatever the value passed (Lower, Higher, Unknown) and whether the
\* call is accepted or rejected.
C8_Monotonic ==
    [][\A p \in Pairs(table) :
           table.data[p] \in Definite => table'.data[p] = table.data[p]]_vars

C8_Witness ==
    /\ last.stored \in Definite
    /\ last.value = Unknown
    /\ \E p \in Pairs(table) : orderof(table, p[1], p[2]) = last.stored

\* C9: a call of order that passes the definite value already stored for
\* the pair (order(a, b, v) again, or order(b, a, v.opposite())) returns
\* normally and changes no entry.  First conjunct: the calls the callers
\* made; second: every such call that can be made in the state.
C9_Idempotent ==
    /\ (last.stored \in Definite /\ last.value = last.stored)
           => (err = NoError /\ ~last.changed)
    /\ \A p \in Pairs(table) :
           LET v == orderof(table, p[1], p[2])
           IN  v \in Definite =>
                   /\ order(table, p[1], p[2], v) = [self |-> table, err |-> NoError]
                   /\ order(table, p[2], p[1], opposite(v)) = [self |-> table, err |-> NoError]

C9_Witness ==
    /\ last.stored \in Definite /\ last.value = last.stored
    /\ err = NoError
    /\ \E p \in Pairs(table) : orderof(table, p[1], p[2]) = Unknown

\* C10: a merge call that stops on an Unknown comparison changes the
\* pending question alone (buckets, table, done and result stay), and the
\* merge call that follows it takes the same two buckets.
C10_SuspendedMergeKeepsQueue ==
    [][/\ (pc = "sort" /\ ~attempt'.ret) =>
              /\ buckets' = buckets
              /\ table' = table
              /\ done' = done
              /\ result' = result
              /\ attempt'.a = buckets'[1] /\ attempt'.b = buckets'[2]
       /\ (pc = "sort" /\ ~attempt.ret) =>
              /\ attempt'.a = attempt.a
              /\ attempt'.b = attempt.b]_vars

C10_Witness ==
    /\ pc = "sort"
    /\ ~attempt.ret
    /\ attempt.ra # attempt.a
    /\ buckets[1] = attempt.a /\ buckets[2] = attempt.b

-----------------------------------------------------------------------------
\* C12: Unknown is never accepted as an asserted value: every call
\* order(o, t, Ordering.Unknown), for every pair and every table, ends with
\* an error and leaves the table unchanged.
C12_UnknownRejected ==
    (last.op = "order" /\ last.value = Unknown) => (err # NoError /\ ~last.changed)

-----------------------------------------------------------------------------
\* C13: order(origin, target, value) fails with one and the same error kind
\* when origin is not in the dataset, when target is not in the dataset and
\* when origin == target, each time leaving the table unchanged; orderof
\* fails as well when either argument is not a member.
C13_OneUnknownElementError ==
    /\ \A x \in table.elements, v \in Ordering :
           LET noOrigin == order(table, Stranger, x, v)
               noTarget == order(table, x, Stranger, v)
               same     == order(table, x, x, v)
           IN  /\ noOrigin.err # NoError /\ noOrigin.self = table
               /\ noTarget.err # NoError /\ noTarget.self = table
               /\ same.err # NoError /\ same.self = table
               /\ ErrorKind(noTarget.err) = ErrorKind(noOrigin.err)
               /\ ErrorKind(same.err) = ErrorKind(noOrigin.err)
    /\ (last.op = "order" /\ last.args # "members" /\ last.value \in Ordering)
           => (err # NoError /\ ~last.changed)
    /\ (last.op = "orderof" /\ last.args \in {"origin", "target"}) => err # NoError

-----------------------------------------------------------------------------
\* C14: a dataset of zero or one element is terminal at once: the first
\* Sort.sort call sets done with result [] or [X]; no question is ever
\* set, the oracle is never consulted and the table is never written.
C14_ImmediatelyTerminal ==
    Len(dataset) <= 1 =>
        /\ question = None /\ entry = None
        /\ asked = <<>> /\ merges = 0
        /\ last = NoCall /\ err = NoError
        /\ table = TransitivityTable(dataset)
        /\ pc \in {"while", "asked", "returned"}
        /\ pc \in {"asked", "returned"} => done
        /\ IF done THEN result = dataset ELSE result = None

C14_Witness ==
    /\ Len(dataset) = 1
    /\ pc = "returned"
    /\ done /\ result = <<dataset[1]>>

-----------------------------------------------------------------------------
\* The pairs of tbl that hold Lower or Higher.
DefinitePairs(tbl) == {p \in Pairs(tbl) : orderof(tbl, p[1], p[2]) \in Definite}

\* order(a, b, v) passes the two checks of lines 64-69.
PassesChecks(tbl, a, b, v) ==
    /\ tbl.data[<<a, b>>] \in {Unknown, v}
    /\ tbl.data[<<b, a>>] \in {Unknown, IF v = Lower THEN Higher ELSE Lower}

\* C15: in every table reachable from the all-Unknown table, a call
\* order(a, b, v) with v Lower or Higher that passes its own two checks
\* returns without an error: none of the nested order(l, h, Lower) calls of
\* transitivity_set raises and the recursion ends; a call that raised
\* "Ordering already assigned" left the table as it was.
C15_PropagationNeverRaises ==
    /\ \A p \in Pairs(table), v \in Definite :
           PassesChecks(table, p[1], p[2], v) => order(table, p[1], p[2], v).err = NoError
    /\ (last.op = "order" /\ last.args = "members" /\ last.value \in Definite
            /\ last.stored \in {Unknown, last.value}) => err = NoError
    /\ err = ValueErrorAssigned => ~last.changed

\* A call was accepted, and a call can follow whose propagation makes
\* nested order calls.
C15_Witness ==
    /\ last.op = "order" /\ last.changed /\ err = NoError
    /\ \E p \in Pairs(table), v \in Definite :
           /\ orderof(table, p[1], p[2]) = Unknown
           /\ PassesChecks(table, p[1], p[2], v)
           /\ Cardinality(DefinitePairs(order(table, p[1], p[2], v).self))
                  > Cardinality(DefinitePairs(table)) + 2

-----------------------------------------------------------------------------
\* C16: in every reachable state of the engine, between any Sort.sort
\* calls and oracle answers, every bucket of the queue is ordered after the
\* table: islower(bucket[i], bucket[j]) for all positions i < j of a bucket.
C16_BucketsOrdered ==
    \A k \in 1..Len(buckets) :
        \A i \in 1..Len(buckets[k]) : \A j \in 1..Len(buckets[k]) :
            i < j => islower(table, buckets[k][i], buckets[k][j])

\* The engine is suspended with a merged bucket of three elements behind
\* a bucket of two.
C16_Witness ==
    /\ pc = "asked" /\ ~done /\ question # None
    /\ Len(buckets) = 2
    /\ Len(buckets[1]) = 2 /\ Len(buckets[2]) = 3

-----------------------------------------------------------------------------
\* The elements of all buckets of the queue bk, front to back.
RECURSIVE Flatten(_)
Flatten(bk) == IF bk = <<>> THEN <<>> ELSE bk[1] \o Flatten(Tail(bk))

\* C17: a merge that completes removes the two front buckets and appends
\* at the back one bucket holding exactly their elements, so the number of
\* buckets drops by one; nothing else changes the queue; and in every
\* reachable state the buckets together hold each element of the dataset
\* exactly once.
C17_MergeReplacesTwoByOne ==
    /\ [](/\ Len(Flatten(buckets)) = Len(dataset)
          /\ Range(Flatten(buckets)) = Range(dataset))
    /\ [][/\ merges' # merges =>
                 /\ Len(buckets) >= 2
                 /\ Len(buckets') = Len(buckets) - 1
                 /\ SubSeq(buckets', 1, Len(buckets') - 1) = SubSeq(buckets, 3, Len(buckets))
                 /\ Len(buckets'[Len(buckets')]) = Len(buckets[1]) + Len(buckets[2])
                 /\ Range(buckets'[Len(buckets')]) = Range(buckets[1]) \cup Range(buckets[2])
          /\ merges' = merges => buckets' = buckets]_vars

\* Three merges have completed: the last took a bucket of one and a
\* bucket of two elements, and two buckets are left.
C17_Witness ==
    /\ merges = 3
    /\ attempt.ret
    /\ Len(attempt.a) = 1 /\ Len(attempt.b) = 2
    /\ Len(buckets) = 2

-----------------------------------------------------------------------------
\* C18: whatever definite answers the oracle gives, each chosen freely
\* from Lower and Higher, the order call of BaseAgent.process never raises,
\* and process ends returning a permutation of the dataset.
C18_NoConflictForDriver ==
    /\ [](pc # "raised" /\ err = NoError)
    /\ <>(pc = "returned")
    /\ [](pc = "returned" =>
             /\ result # None
             /\ Len(result) = Len(dataset)
             /\ Range(result) = Range(dataset))

\* process has returned the dataset of MaxN elements in another order
\* than the dataset's, having asked at least MaxN questions.
C18_Witness ==
    /\ pc = "returned"
    /\ Len(dataset) = MaxN
    /\ result # dataset
    /\ Len(asked) >= MaxN
    /\ last.op = "order" /\ last.changed

-----------------------------------------------------------------------------
\* The pairs <<x, y>> of tbl with x recorded Lower than y.
LowerPairs(tbl) == {p \in Pairs(tbl) : orderof(tbl, p[1], p[2]) = Lower}

\* The transitive closure of the relation R.
RECURSIVE Closure(_)
Closure(R) ==
    LET step == R \cup {<<pq[1][1], pq[2][2]>> : pq \in {x \in R \X R : x[1][2] = x[2][1]}}
    IN  IF step = R THEN R ELSE Closure(step)

\* The fact that order(a, b, v) asserts, as a pair <<lower, higher>>.
Fact(a, b, v) == IF v = Lower THEN <<a, b>> ELSE <<b, a>>

\* C19: after a successful order(a, b, v), v Lower or Higher, on a table
\* reachable from the all-Unknown table, the Lower entries are exactly the
\* transitive closure of the Lower entries before the call and the asserted
\* fact, the Higher entries are their mirror images and every other entry
\* is Unknown; so, from the all-Unknown table on, an entry is definite
\* exactly when the facts asserted so far imply it.
C19_SoundAndExact ==
    /\ LowerPairs(table) = Closure(LowerPairs(table))
    /\ \A p \in Pairs(table), v \in Definite :
           LET r == order(table, p[1], p[2], v)
               implied == Closure(LowerPairs(table) \cup {Fact(p[1], p[2], v)})
           IN  r.err = NoError =>
                   \A q \in Pairs(table) :
                       r.self.data[q] = IF q \in implied THEN Lower
                                        ELSE IF <<q[2], q[1]>> \in implied THEN Higher
                                        ELSE Unknown

\* An accepted call on an Unknown pair has made the table of MaxTable
\* elements total.
C19_Witness ==
    /\ last.op = "order" /\ last.stored = Unknown /\ last.value \in Definite
    /\ last.changed /\ err = NoError
    /\ table.datadim = MaxTable
    /\ DefinitePairs(table) = Pairs(table)

-----------------------------------------------------------------------------
\* The sequence s runs from lower to higher after the table tbl.
IsLowerChain(tbl, s) ==
    \A i \in 1..Len(s) : \A j \in 1..Len(s) : i < j => islower(tbl, s[i], s[j])

\* Every arrangement of the elements of the set S in a sequence.
RECURSIVE Arrangements(_)
Arrangements(S) ==
    IF S = {} THEN {<<>>}
    ELSE UNION {{<<x>> \o s : s \in Arrangements(S \ {x})} : x \in S}

\* C20: when the engine is done for a dataset of one element or more, no
\* pair of distinct elements is Unknown in the table, and the result is the
\* one arrangement of the dataset in which every element is Lower than all
\* that follow it.
C20_DoneTableTotal ==
    (done /\ Len(dataset) >= 1) =>
        /\ \A p \in Pairs(table) : orderof(table, p[1], p[2]) \in Definite
        /\ result \in Arrangements(Range(dataset))
        /\ \A s \in Arrangements(Range(dataset)) : IsLowerChain(table, s) <=> s = result

\* Done for MaxN elements with fewer questions than pairs: the other
\* entries were derived.
C20_Witness ==
    /\ done /\ pc = "asked"
    /\ Len(dataset) = MaxN
    /\ result # dataset
    /\ 2 * Len(asked) < MaxN * (MaxN - 1)

-----------------------------------------------------------------------------
\* C11: every Sort.sort call clears the pending question before it merges:
\* when a Sort.sort call has returned, under any caller, Sort.question is
\* set only if that call suspended (it is not done and its last merge
\* returned False), and Sort.done implies that Sort.question is None.
C11_SortClearsQuestion ==
    /\ (pc = "asked" /\ question # None) => (~done /\ ~attempt.ret)
    /\ done => question = None

====
